---- MODULE Spec2Model ----
(***************************************************************************)
(* bitcraft_mercantile: one run of main() in src/app/main.py.              *)
(*                                                                         *)
(* The run fetches the home claim, the market summary, one order book per  *)
(* item and one claim record per trade partner, builds the table full_df   *)
(* of profitable trades touching the home claim, ranks it under four       *)
(* vehicle capacity profiles and uploads it.                               *)
(*                                                                         *)
(* Encodings.  A pandas DataFrame is a pair (set of column names, sequence *)
(* of rows); a row is a record and carries its index label in "index".     *)
(* A float is a record [kind, v]: kind "fin" with v in hundredths, or      *)
(* "inf" / "nan".  An item volume is held in half units (2 = 1.0), so that *)
(* non-integer volumes exist and astype(int) is a real truncation.         *)
(* Prices and quantities arrive as strings and are parsed by astype(int).  *)
(***************************************************************************)
EXTENDS Integers, Sequences, FiniteSets, TLC

\* ------------------------------------------------------------------ bounds
MaxItems  == 2      \* items the market summary lists
MaxOrders == 4      \* raw orders the remote service returns over a run
MaxX      == 1      \* locationX ranges over 0..MaxX
MaxZ      == 0      \* locationZ ranges over 0..MaxZ

\* --------------------------------------------------------- the remote world
HomeUrl == "https://bitjita.com/claims/H"

\* claim_url.split("claims/")[1]
ClaimIdOf(url) == IF url = HomeUrl THEN "H" ELSE "?"

XCoords == 0..MaxX
ZCoords == 0..MaxZ

\* The item listing the remote service can draw from: an item of volume 1.0,
\* a cargo of volume 66000.5, an entry of an unknown type code, and an item of
\* volume 0.5.
Catalogue ==
  { [id |-> "101", name |-> "Ore",   itemType |-> 0, volume |-> 2],
    [id |-> "102", name |-> "Crate", itemType |-> 1, volume |-> 132001],
    [id |-> "103", name |-> "Relic", itemType |-> 2, volume |-> 2],
    [id |-> "104", name |-> "Dust",  itemType |-> 0, volume |-> 1] }

\* Market summaries: lists of distinct catalogue entries, in listing order.
ListingRank(item) ==
  CASE item.id = "101" -> 1 [] item.id = "102" -> 2
    [] item.id = "103" -> 3 [] item.id = "104" -> 4

ItemLists ==
  UNION { { s \in [1..n -> Catalogue] :
              \A a, b \in 1..n : a < b => ListingRank(s[a]) < ListingRank(s[b]) }
          : n \in 0..MaxItems }

Quantities == {"1"}

\* Where an order can stand: the home claim, or claim A under either of the
\* two names the service reports for it.
Places ==
  { [claimEntityId |-> "H", claimName |-> "Home",  regionName |-> "North"],
    [claimEntityId |-> "A", claimName |-> "Alpha", regionName |-> "South"],
    [claimEntityId |-> "A", claimName |-> "Alfa",  regionName |-> "South"] }

\* The price thresholds an order can carry there: "1" and "2" at the home
\* claim and at Alpha, "2" under the other name, and "02" (the same price as
\* "2", written differently) at Alpha.
PricesAt(l) ==
  IF l.claimName = "Alfa" THEN {"2"}
  ELSE IF l.claimName = "Alpha" THEN {"1", "2", "02"}
  ELSE {"1", "2"}

RawOrders ==
  UNION { { [priceThreshold |-> p, quantity |-> q,
             claimEntityId |-> l.claimEntityId,
             claimName |-> l.claimName, regionName |-> l.regionName]
            : p \in PricesAt(l), q \in Quantities }
          : l \in Places }

OrderLists(n) == UNION { [1..k -> RawOrders] : k \in 0..n }

\* ------------------------------------------------------------- conversions
\* int("1") = 1, int("2") = 2, int("02") = 2
ParseInt(s) == CASE s = "1" -> 1 [] s = "2" -> 2 [] s = "02" -> 2

\* float volume -> int, truncating (volume in half units)
TruncVolume(v) == v \div 2

\* Python's order on the strings the model uses (code point order).
StrOrder == <<"02", "1", "2", "A", "Alfa", "Alpha", "H", "Home", "North", "South">>
StrRank(s) == CHOOSE k \in 1..Len(StrOrder) : StrOrder[k] = s

\* ------------------------------------------------------------------ floats
Fin(v) == [kind |-> "fin", v |-> v]
Inf    == [kind |-> "inf", v |-> 0]
NaN    == [kind |-> "nan", v |-> 0]

\* a / b rounded to the nearest integer, ties to even (np.round); a >= 0, b > 0
RoundDiv(a, b) ==
  LET q == a \div b
      r == a % b
  IN  IF 2 * r < b THEN q
      ELSE IF 2 * r > b THEN q + 1
      ELSE IF q % 2 = 0 THEN q ELSE q + 1

\* ---------------------------------------------------- Order Book Normalizer
\* lines 117-130: the raw orders as a table trimmed to market_cols_0; itemId
\* and itemType are the columns the order book carries for the queried item.
Trimmed(raw, item, item_type_str) ==
  [k \in 1..Len(raw) |->
     [itemName       |-> item.name,
      itemTypeStr    |-> IF item_type_str = "item" THEN "Item" ELSE "Cargo",
      itemId         |-> item.id,
      itemType       |-> item.itemType,
      itemVolume     |-> item.volume,
      priceThreshold |-> raw[k].priceThreshold,
      quantity       |-> ParseInt(raw[k].quantity),
      claimEntityId  |-> raw[k].claimEntityId,
      claimName      |-> raw[k].claimName,
      regionName     |-> raw[k].regionName]]

\* the groupby key: every column of market_cols_0 but quantity
GroupKey(r) == [r EXCEPT !.quantity = 0]

RECURSIVE SumQuantity(_, _)
SumQuantity(rows, key) ==
  IF rows = <<>> THEN 0
  ELSE (IF GroupKey(Head(rows)) = key THEN Head(rows).quantity ELSE 0)
       + SumQuantity(Tail(rows), key)

\* groupby sorts its groups by key; within one item only these columns vary
KeyRank(r) ==
  ((StrRank(r.priceThreshold) * 16 + StrRank(r.claimEntityId)) * 16
     + StrRank(r.claimName)) * 16 + StrRank(r.regionName)

\* lines 133-140: groupby(all non-quantity columns)["quantity"].sum()
GroupBySum(rows) ==
  LET keys == { GroupKey(rows[k]) : k \in 1..Len(rows) }
      n    == Cardinality(keys)
      ord  == CHOOSE s \in [1..n -> keys] :
                \A a, b \in 1..n : a < b => KeyRank(s[a]) < KeyRank(s[b])
  IN  [k \in 1..n |-> [ord[k] EXCEPT !.quantity = SumQuantity(rows, ord[k])]]

Normalize(raw, item, item_type_str) == GroupBySum(Trimmed(raw, item, item_type_str))

\* --------------------------------------------------------- Arbitrage Matcher
Min(a, b) == IF a <= b THEN a ELSE b

\* lines 143-175: rename and inner join on the item columns
JoinRow(s, b) ==
  [itemName          |-> s.itemName,
   itemTypeStr       |-> s.itemTypeStr,
   itemId            |-> s.itemId,
   itemType          |-> s.itemType,
   itemVolume        |-> s.itemVolume,
   SellingPrice      |-> s.priceThreshold,
   SellingQuantity   |-> s.quantity,
   sellClaimEntityId |-> s.claimEntityId,
   SellingClaim      |-> s.claimName,
   SellingRegion     |-> s.regionName,
   BuyingPrice       |-> b.priceThreshold,
   BuyingQuantity    |-> b.quantity,
   buyClaimEntityId  |-> b.claimEntityId,
   BuyingClaim       |-> b.claimName,
   BuyingRegion      |-> b.regionName]

JoinKey(r) == <<r.itemName, r.itemTypeStr, r.itemId, r.itemType, r.itemVolume>>

Merge(sells, buys) ==
  LET nb  == Len(buys)
      all == [k \in 1..(Len(sells) * nb) |->
                <<sells[((k - 1) \div nb) + 1], buys[((k - 1) % nb) + 1]>>]
      on  == SelectSeq(all, LAMBDA p : JoinKey(p[1]) = JoinKey(p[2]))
  IN  [k \in 1..Len(on) |-> JoinRow(on[k][1], on[k][2])]

\* a filter that lets every pair through
TouchesHomeAny(r, home) == TRUE

\* line 178
TouchesHome(r, home) ==
  r.sellClaimEntityId = home \/ r.buyClaimEntityId = home

\* lines 181-184
Priced(r) ==
  LET bp == ParseInt(r.BuyingPrice)
      sp == ParseInt(r.SellingPrice)
  IN  [itemName          |-> r.itemName,
       itemTypeStr       |-> r.itemTypeStr,
       itemId            |-> r.itemId,
       itemType          |-> r.itemType,
       itemVolume        |-> r.itemVolume,
       SellingPrice      |-> sp,
       SellingQuantity   |-> r.SellingQuantity,
       sellClaimEntityId |-> r.sellClaimEntityId,
       SellingClaim      |-> r.SellingClaim,
       SellingRegion     |-> r.SellingRegion,
       BuyingPrice       |-> bp,
       BuyingQuantity    |-> r.BuyingQuantity,
       buyClaimEntityId  |-> r.buyClaimEntityId,
       BuyingClaim       |-> r.BuyingClaim,
       BuyingRegion      |-> r.BuyingRegion,
       TradeQuantity     |-> Min(r.BuyingQuantity, r.SellingQuantity),
       UnitProfit        |-> bp - sp]

\* a filter that also keeps the pairs of equal price
ProfitableOrEven(r) == r.UnitProfit >= 0

\* line 187
Profitable(r) == r.UnitProfit > 0

\* lines 169-187: one item's TradeMatches
Match(sells, buys, home) ==
  LET merged == Merge(sells, buys)
      kept0  == SelectSeq(merged, LAMBDA r : TouchesHome(r, home))
      priced == [k \in 1..Len(kept0) |-> Priced(kept0[k])]
  IN  SelectSeq(priced, Profitable)

MatchColumns ==
  {"itemName", "itemTypeStr", "itemId", "itemType", "itemVolume",
   "Selling Price", "Selling Quantity", "sellClaimEntityId", "Selling Claim",
   "Selling Region", "Buying Price", "Buying Quantity", "buyClaimEntityId",
   "Buying Claim", "Buying Region", "Trade Quantity", "Unit Profit"}


\* --------------------------------------------------------- Distance Resolver
\* pd.unique: first occurrences, in order
RECURSIVE Unique(_)
Unique(s) ==
  IF s = <<>> THEN <<>>
  ELSE LET u == Unique(SubSeq(s, 1, Len(s) - 1))
           x == s[Len(s)]
       IN  IF \E k \in 1..Len(u) : u[k] = x THEN u ELSE Append(u, x)

\* line 194: the buy column, then the sell column (ravel("K") of the two
\* column block), made unique
ClaimList(df) ==
  Unique([k \in 1..Len(df) |-> df[k].buyClaimEntityId]
         \o [k \in 1..Len(df) |-> df[k].sellClaimEntityId])

\* line 221: np.round(np.sqrt((X0-x)**2 + (Z0-z)**2)/3, 2), in hundredths
Distance(x0, z0, x, z) ==
  LET d2 == (x0 - x) * (x0 - x) + (z0 - z) * (z0 - z)
  IN  Fin(CHOOSE n \in 0..(50 * (MaxX + MaxZ + 1)) :
            /\ (n = 0 \/ (6 * n - 3) * (6 * n - 3) <= 40000 * d2)
            /\ 40000 * d2 < (6 * n + 3) * (6 * n + 3))

\* lines 226-233: the side of the trade that is not the home claim
TargetClaim(r, home) ==
  IF r.buyClaimEntityId = home THEN r.sellClaimEntityId
  ELSE r.buyClaimEntityId

\* a lookup that defaults to a finite distance
LookupOrOne(dd, c) == IF c \in DOMAIN dd THEN dd[c] ELSE Fin(100)

\* line 235: dist_dict.get(target_claim, np.inf)
Lookup(dd, c) == IF c \in DOMAIN dd THEN dd[c] ELSE Inf

WithDistance(r, d) ==
  [itemName          |-> r.itemName,
   itemTypeStr       |-> r.itemTypeStr,
   itemId            |-> r.itemId,
   itemType          |-> r.itemType,
   itemVolume        |-> r.itemVolume,
   SellingPrice      |-> r.SellingPrice,
   SellingQuantity   |-> r.SellingQuantity,
   sellClaimEntityId |-> r.sellClaimEntityId,
   SellingClaim      |-> r.SellingClaim,
   SellingRegion     |-> r.SellingRegion,
   BuyingPrice       |-> r.BuyingPrice,
   BuyingQuantity    |-> r.BuyingQuantity,
   buyClaimEntityId  |-> r.buyClaimEntityId,
   BuyingClaim       |-> r.BuyingClaim,
   BuyingRegion      |-> r.BuyingRegion,
   TradeQuantity     |-> r.TradeQuantity,
   UnitProfit        |-> r.UnitProfit,
   index             |-> r.index,
   Distance          |-> d]

\* ------------------------------------------------------------ Capacity Model
player_capacity ==
  [item_slots |-> 25, cargo_slots |-> 1,
   item_slot_size |-> 6000, cargo_slot_size |-> 6000]

Vehicles == <<"Raft", "Skiff", "Clipper", "Cargo Ship">>

vehicle_capacity ==
  [v \in {"Raft", "Skiff", "Clipper", "Cargo Ship"} |->
     CASE v = "Raft" ->
            [item_slots |-> 6, cargo_slots |-> 1,
             item_slot_size |-> 6000, cargo_slot_size |-> 60000]
       [] v = "Skiff" ->
            [item_slots |-> 24, cargo_slots |-> 4,
             item_slot_size |-> 6000, cargo_slot_size |-> 60000]
       [] v = "Clipper" ->
            [item_slots |-> 30, cargo_slots |-> 6,
             item_slot_size |-> 6000, cargo_slot_size |-> 60000]
       [] v = "Cargo Ship" ->
            [item_slots |-> 30, cargo_slots |-> 10,
             item_slot_size |-> 6000, cargo_slot_size |-> 60000]]

base_item_qty  == player_capacity.item_slot_size * player_capacity.item_slots
base_cargo_qty == player_capacity.cargo_slot_size * player_capacity.cargo_slots

\* lines 275-282
EffectiveCapacity(vehicle, itemTypeStr) ==
  IF itemTypeStr = "Item"
    THEN vehicle_capacity[vehicle].item_slot_size * vehicle_capacity[vehicle].item_slots
         + base_item_qty
  ELSE IF itemTypeStr = "Cargo"
    THEN vehicle_capacity[vehicle].cargo_slot_size * vehicle_capacity[vehicle].cargo_slots
         + base_cargo_qty
  ELSE 0

\* lines 284-285, the volume being the column line 272 has truncated
CappedQuantity(vehicle, r) ==
  Min(r.TradeQuantity,
      EffectiveCapacity(vehicle, r.itemTypeStr) \div TruncVolume(r.itemVolume))

\* line 291: np.round(1000 * profit / distance, 2), in hundredths
ProfitPer1kDist(profit, d) ==
  IF d.kind = "inf" THEN Fin(0)
  ELSE IF d.kind = "nan" THEN NaN
  ELSE IF d.v = 0 THEN (IF profit > 0 THEN Inf ELSE NaN)
  ELSE Fin(RoundDiv(10000000 * profit, d.v))

VehicleSet == {Vehicles[k] : k \in 1..Len(Vehicles)}

\* lines 273-291 for one row, all vehicles
Ranked(r) ==
  LET qty    == [v \in VehicleSet |-> CappedQuantity(v, r)]
      profit == [v \in VehicleSet |-> qty[v] * r.UnitProfit]
  IN  [itemName          |-> r.itemName,
       itemTypeStr       |-> r.itemTypeStr,
       itemId            |-> r.itemId,
       itemType          |-> r.itemType,
       itemVolume        |-> TruncVolume(r.itemVolume),
       SellingPrice      |-> r.SellingPrice,
       SellingQuantity   |-> r.SellingQuantity,
       sellClaimEntityId |-> r.sellClaimEntityId,
       SellingClaim      |-> r.SellingClaim,
       SellingRegion     |-> r.SellingRegion,
       BuyingPrice       |-> r.BuyingPrice,
       BuyingQuantity    |-> r.BuyingQuantity,
       buyClaimEntityId  |-> r.buyClaimEntityId,
       BuyingClaim       |-> r.BuyingClaim,
       BuyingRegion      |-> r.BuyingRegion,
       TradeQuantity     |-> r.TradeQuantity,
       UnitProfit        |-> r.UnitProfit,
       index             |-> r.index,
       Distance          |-> r.Distance,
       Quantity          |-> qty,
       Profit            |-> profit,
       ProfitPer1kDist   |-> [v \in VehicleSet |-> ProfitPer1kDist(profit[v], r.Distance)]]

VehicleColumns ==
  UNION { {<<v, "Quantity">>, <<v, "Profit">>, <<v, "Profit per 1k Dist">>}
          : v \in VehicleSet }

\* ---------------------------------------------------------- Report Assembler
\* lines 294-297: drop the helper columns, rename the API names
Display(r) ==
  [Item            |-> r.itemName,
   ItemType        |-> r.itemTypeStr,
   SellingPrice    |-> r.SellingPrice,
   SellingQuantity |-> r.SellingQuantity,
   SellingClaim    |-> r.SellingClaim,
   SellingRegion   |-> r.SellingRegion,
   BuyingPrice     |-> r.BuyingPrice,
   BuyingQuantity  |-> r.BuyingQuantity,
   BuyingClaim     |-> r.BuyingClaim,
   BuyingRegion    |-> r.BuyingRegion,
   TradeQuantity   |-> r.TradeQuantity,
   UnitProfit      |-> r.UnitProfit,
   index           |-> r.index,
   Distance        |-> r.Distance,
   Quantity        |-> r.Quantity,
   Profit          |-> r.Profit,
   ProfitPer1kDist |-> r.ProfitPer1kDist]

\* sort_values(ascending=False): inf first, nan last
SortOrd(f) ==
  CASE f.kind = "nan" -> 0 - 1
    [] f.kind = "inf" -> 2000000000
    [] f.kind = "fin" -> f.v

RECURSIVE SortDescending(_)
SortDescending(rows) ==
  IF rows = <<>> THEN <<>>
  ELSE LET done == SortDescending(SubSeq(rows, 1, Len(rows) - 1))
           r    == rows[Len(rows)]
           key  == SortOrd(r.ProfitPer1kDist["Cargo Ship"])
           at   == Cardinality({k \in 1..Len(done) :
                       SortOrd(done[k].ProfitPer1kDist["Cargo Ship"]) >= key})
       IN  SubSeq(done, 1, at) \o <<r>> \o SubSeq(done, at + 1, Len(done))

\* a replacement that leaves the infinities in place
KeepInf(f) == f

\* line 308
ReplaceInf(f) == IF f.kind = "inf" THEN NaN ELSE f

\* line 309: a row survives dropna when no column holds nan
Complete(r) ==
  /\ ReplaceInf(r.Distance).kind # "nan"
  /\ \A v \in VehicleSet : ReplaceInf(r.ProfitPer1kDist[v]).kind # "nan"

\* reset_index(drop=True)
Reindex(rows) == [k \in 1..Len(rows) |-> [rows[k] EXCEPT !.index = k - 1]]

\* lines 294-309
Assemble(df) ==
  LET shown  == [k \in 1..Len(df) |-> Display(df[k])]
      sorted == SortDescending(shown)
  IN  SelectSeq(sorted, Complete)


\* ------------------------------------------------------------------- state
VARIABLES
  pc,          \* where main() is
  env,         \* the .env settings ("" = no entry)
  X0, Z0,      \* home coordinates
  item_list,   \* the market summary
  i,           \* loop index of the item loop, then of the claim loop
  all_buys,    \* normalized buy pool of the item last matched
  all_sells,   \* normalized sell pool of the item last matched
  columns,     \* columns of full_df
  full_df,     \* rows of full_df
  claim_list,  \* claims the distance loop queries
  dist_dict,   \* claim id -> distance
  report,      \* full_df as it stands at line 311
  kept,        \* index labels that survived dropna (before reset_index)
  requests,    \* endpoints queried through _make_request, in order
  failed,      \* positions in requests of the queries that raised inside a try
  processed,   \* positions of item_list whose loop body has run, in order
  uploaded,    \* the report sink was written
  log,         \* error and warning records logged by main()
  exc,         \* the exception that left main(), or "none"
  budget       \* raw orders the remote service may still return

vars == <<pc, env, X0, Z0, item_list, i, all_buys, all_sells, columns, full_df,
          claim_list, dist_dict, report, kept, requests, failed, processed,
          uploaded, log, exc, budget>>

claim_id == ClaimIdOf(env.CLAIM_URL)
total_N  == Len(item_list)
claim_N  == Len(claim_list)

Endpoint(path, id) == [path |-> path, id |-> id]

Init ==
  /\ pc = "config"
  /\ env \in [CLAIM_URL : {"", HomeUrl}, THROTTLE_RATE : {"", "1"},
              SPREADSHEET_NAME : {"", "Trades"}]
  /\ X0 = 0 /\ Z0 = 0
  /\ item_list = <<>>
  /\ i = 0
  /\ all_buys = <<>> /\ all_sells = <<>>
  /\ columns = {}
  /\ full_df = <<>>
  /\ claim_list = <<>>
  /\ dist_dict = <<>>
  /\ report = <<>>
  /\ kept = {}
  /\ requests = <<>>
  /\ failed = {}
  /\ processed = <<>>
  /\ uploaded = FALSE
  /\ log = {}
  /\ exc = "none"
  /\ budget = MaxOrders

\* lines 17-38: a missing setting is logged and main() returns
LoadConfig ==
  /\ pc = "config"
  /\ IF env.CLAIM_URL = "" THEN
       /\ log' = log \cup {"error: No CLAIM_URL entry"}
       /\ pc' = "returned"
     ELSE IF env.THROTTLE_RATE = "" THEN
       /\ log' = log \cup {"error: No THROTTLE_RATE entry"}
       /\ pc' = "returned"
     ELSE IF env.SPREADSHEET_NAME = "" THEN
       /\ log' = log \cup {"error: No SPREADSHEET_NAME entry"}
       /\ pc' = "returned"
     ELSE
       /\ log' = log
       /\ pc' = "home"
  /\ UNCHANGED <<env, X0, Z0, item_list, i, all_buys, all_sells, columns,
                 full_df, claim_list, dist_dict, report, kept, requests,
                 failed, processed, uploaded, exc, budget>>

\* lines 43-50: the home claim's record
FetchHome ==
  /\ pc = "home"
  /\ requests' = Append(requests, Endpoint("claims", claim_id))
  /\ \E x \in XCoords, z \in ZCoords :
       /\ X0' = x /\ Z0' = z
  /\ pc' = "market"
  /\ UNCHANGED <<env, item_list, i, all_buys, all_sells, columns, full_df,
                 claim_list, dist_dict, report, kept, failed, processed,
                 uploaded, log, exc, budget>>

\* line 45, _make_request raising (lines 352-354): no handler in main()
FetchHomeRaises ==
  /\ pc = "home"
  /\ requests' = Append(requests, Endpoint("claims", claim_id))
  /\ log' = log \cup {"error: Bitjita API Request failed"}
  /\ exc' = "RequestError"
  /\ pc' = "raised"
  /\ UNCHANGED <<env, X0, Z0, item_list, i, all_buys, all_sells, columns,
                 full_df, claim_list, dist_dict, report, kept, failed,
                 processed, uploaded, budget>>

\* lines 52-57 and 76: the market summary
FetchMarket ==
  /\ pc = "market"
  /\ requests' = Append(requests, Endpoint("market", claim_id))
  /\ item_list' \in ItemLists
  /\ i' = 0
  /\ full_df' = <<>> /\ columns' = {}
  /\ pc' = "items"
  /\ UNCHANGED <<env, X0, Z0, all_buys, all_sells, claim_list, dist_dict,
                 report, kept, failed, processed, uploaded, log, exc, budget>>

\* line 53, _make_request raising: no handler in main()
FetchMarketRaises ==
  /\ pc = "market"
  /\ requests' = Append(requests, Endpoint("market", claim_id))
  /\ log' = log \cup {"error: Bitjita API Request failed"}
  /\ exc' = "RequestError"
  /\ pc' = "raised"
  /\ UNCHANGED <<env, X0, Z0, item_list, i, all_buys, all_sells, columns,
                 full_df, claim_list, dist_dict, report, kept, failed,
                 processed, uploaded, budget>>

\* lines 88-99 of the item at position i (0-based)
ItemAt(k) == item_list[k + 1]

ItemTypeStr(item) ==
  IF item.itemType = 0 THEN "item"
  ELSE IF item.itemType = 1 THEN "cargo"
  ELSE "unknown"

\* lines 79-99: an item of an unknown type is skipped
SkipItem ==
  /\ pc = "items" /\ i < total_N
  /\ ItemTypeStr(ItemAt(i)) = "unknown"
  /\ processed' = Append(processed, i)
  /\ i' = i + 1
  /\ UNCHANGED <<pc, env, X0, Z0, item_list, all_buys, all_sells, columns,
                 full_df, claim_list, dist_dict, report, kept, requests,
                 failed, uploaded, log, exc, budget>>

ItemEndpoint(item) == Endpoint("market/" \o ItemTypeStr(item), item.id)

\* a failed order book query that ends the item loop
ItemFetchFailedBreaks ==
  /\ pc = "items" /\ i < total_N
  /\ ItemTypeStr(ItemAt(i)) # "unknown"
  /\ processed' = Append(processed, i)
  /\ requests' = Append(requests, ItemEndpoint(ItemAt(i)))
  /\ failed' = failed \cup {Len(requests) + 1}
  /\ log' = log \cup {"error: Bitjita API Request failed",
                      "error: Unable to complete query for item"}
  /\ i' = total_N
  /\ UNCHANGED <<pc, env, X0, Z0, item_list, all_buys, all_sells, columns,
                 full_df, claim_list, dist_dict, report, kept, uploaded, exc,
                 budget>>

\* lines 101-108: the order book query fails, the item is skipped
ItemFetchFailed ==
  /\ pc = "items" /\ i < total_N
  /\ ItemTypeStr(ItemAt(i)) # "unknown"
  /\ processed' = Append(processed, i)
  /\ requests' = Append(requests, ItemEndpoint(ItemAt(i)))
  /\ failed' = failed \cup {Len(requests) + 1}
  /\ log' = log \cup {"error: Bitjita API Request failed",
                      "error: Unable to complete query for item"}
  /\ i' = i + 1
  /\ UNCHANGED <<pc, env, X0, Z0, item_list, all_buys, all_sells, columns,
                 full_df, claim_list, dist_dict, report, kept, uploaded, exc,
                 budget>>

\* lines 101-114: the order book has no buy orders or no sell orders
ItemNoOrders ==
  /\ pc = "items" /\ i < total_N
  /\ ItemTypeStr(ItemAt(i)) # "unknown"
  /\ \E item_buys \in OrderLists(budget) :
       \E item_sells \in OrderLists(budget - Len(item_buys)) :
         /\ Len(item_sells) = 0 \/ Len(item_buys) = 0
         /\ budget' = budget - Len(item_buys) - Len(item_sells)
  /\ processed' = Append(processed, i)
  /\ requests' = Append(requests, ItemEndpoint(ItemAt(i)))
  /\ i' = i + 1
  /\ UNCHANGED <<pc, env, X0, Z0, item_list, all_buys, all_sells, columns,
                 full_df, claim_list, dist_dict, report, kept, failed,
                 uploaded, log, exc>>

\* line 190: pd.concat([full_df, merged_df], ignore_index=True)
Concat(df, merged) ==
  LET both == df \o merged
  IN  [k \in 1..Len(both) |->
         [c \in DOMAIN both[k] \cup {"index"} |->
            IF c = "index" THEN k - 1 ELSE both[k][c]]]

\* lines 101-190: the order book is normalized, matched and appended
ItemMatched ==
  /\ pc = "items" /\ i < total_N
  /\ ItemTypeStr(ItemAt(i)) # "unknown"
  /\ \E item_buys \in OrderLists(budget) :
       \E item_sells \in OrderLists(budget - Len(item_buys)) :
         /\ Len(item_sells) # 0 /\ Len(item_buys) # 0
         /\ budget' = budget - Len(item_buys) - Len(item_sells)
         /\ all_buys' = Normalize(item_buys, ItemAt(i), ItemTypeStr(ItemAt(i)))
         /\ all_sells' = Normalize(item_sells, ItemAt(i), ItemTypeStr(ItemAt(i)))
  /\ full_df' = Concat(full_df, Match(all_sells', all_buys', claim_id))
  /\ columns' = columns \cup MatchColumns
  /\ processed' = Append(processed, i)
  /\ requests' = Append(requests, ItemEndpoint(ItemAt(i)))
  /\ i' = i + 1
  /\ UNCHANGED <<pc, env, X0, Z0, item_list, claim_list, dist_dict, report,
                 kept, failed, uploaded, log, exc>>

\* lines 191-199: the item loop is over; full_df[["buyClaimEntityId",
\* "sellClaimEntityId"]] is a KeyError on a table without those columns
BeginDistances ==
  /\ pc = "items" /\ i = total_N
  /\ IF {"buyClaimEntityId", "sellClaimEntityId"} \subseteq columns THEN
       /\ claim_list' = ClaimList(full_df)
       /\ dist_dict' = <<>>
       /\ i' = 0
       /\ pc' = "claims"
       /\ exc' = exc
     ELSE
       /\ exc' = "KeyError"
       /\ pc' = "raised"
       /\ UNCHANGED <<claim_list, dist_dict, i>>
  /\ UNCHANGED <<env, X0, Z0, item_list, all_buys, all_sells, columns,
                 full_df, report, kept, requests, failed, processed, uploaded,
                 log, budget>>

\* the coordinates the service reports for a claim: the home claim stands
\* where it stood at line 45
ClaimCoords(c) ==
  IF c = claim_id THEN {<<X0, Z0>>} ELSE XCoords \X ZCoords

\* lines 200-222: one claim's record is fetched and its distance stored
ClaimFetched ==
  /\ pc = "claims" /\ i < claim_N
  /\ requests' = Append(requests, Endpoint("claims", claim_list[i + 1]))
  /\ \E xz \in ClaimCoords(claim_list[i + 1]) :
       dist_dict' = [c \in DOMAIN dist_dict \cup {claim_list[i + 1]} |->
                       IF c = claim_list[i + 1]
                         THEN Distance(X0, Z0, xz[1], xz[2])
                         ELSE dist_dict[c]]
  /\ i' = i + 1
  /\ UNCHANGED <<pc, env, X0, Z0, item_list, all_buys, all_sells, columns,
                 full_df, claim_list, report, kept, failed, processed,
                 uploaded, log, exc, budget>>

\* lines 209-215: the claim query fails, the claim is skipped
ClaimFetchFailed ==
  /\ pc = "claims" /\ i < claim_N
  /\ requests' = Append(requests, Endpoint("claims", claim_list[i + 1]))
  /\ failed' = failed \cup {Len(requests) + 1}
  /\ log' = log \cup {"error: Bitjita API Request failed",
                      "error: Unable to complete query for claim"}
  /\ i' = i + 1
  /\ UNCHANGED <<pc, env, X0, Z0, item_list, all_buys, all_sells, columns,
                 full_df, claim_list, dist_dict, report, kept, processed,
                 uploaded, exc, budget>>

\* lines 224-235: every row gets its distance
ApplyDistances ==
  /\ pc = "claims" /\ i = claim_N
  /\ full_df' = [k \in 1..Len(full_df) |->
                   WithDistance(full_df[k],
                                Lookup(dist_dict, TargetClaim(full_df[k], claim_id)))]
  /\ columns' = IF Len(full_df) > 0 THEN columns \cup {"Distance"} ELSE columns
  /\ pc' = "capacity"
  /\ UNCHANGED <<env, X0, Z0, item_list, i, all_buys, all_sells, claim_list,
                 dist_dict, report, kept, requests, failed, processed,
                 uploaded, log, exc, budget>>

\* lines 237-291: the capacity limits of every vehicle.  Line 284 divides by
\* the truncated volume (an ArithmeticError when it is 0); line 287 reads the
\* vehicle's quantity column, which only the row loop creates (KeyError on a
\* table without rows)
ApplyCapacity ==
  /\ pc = "capacity"
  /\ IF \E k \in 1..Len(full_df) : TruncVolume(full_df[k].itemVolume) = 0 THEN
       /\ exc' = "ArithmeticError"
       /\ pc' = "raised"
       /\ UNCHANGED <<full_df, columns>>
     ELSE IF Len(full_df) = 0 THEN
       /\ exc' = "KeyError"
       /\ pc' = "raised"
       /\ UNCHANGED <<full_df, columns>>
     ELSE
       /\ full_df' = [k \in 1..Len(full_df) |-> Ranked(full_df[k])]
       /\ columns' = columns \cup VehicleColumns
       /\ pc' = "assemble"
       /\ exc' = exc
  /\ UNCHANGED <<env, X0, Z0, item_list, i, all_buys, all_sells, claim_list,
                 dist_dict, report, kept, requests, failed, processed,
                 uploaded, log, budget>>

\* lines 293-309: the final table
AssembleReport ==
  /\ pc = "assemble"
  /\ kept' = {Assemble(full_df)[k].index : k \in 1..Len(Assemble(full_df))}
  /\ report' = Reindex(Assemble(full_df))
  /\ pc' = "emit"
  /\ UNCHANGED <<env, X0, Z0, item_list, i, all_buys, all_sells, columns,
                 full_df, claim_list, dist_dict, requests, failed, processed,
                 uploaded, log, exc, budget>>

\* lines 311-332: a table with rows is written to the report sink
Upload ==
  /\ pc = "emit"
  /\ Len(report) > 0
  /\ uploaded' = TRUE
  /\ pc' = "returned"
  /\ UNCHANGED <<env, X0, Z0, item_list, i, all_buys, all_sells, columns,
                 full_df, claim_list, dist_dict, report, kept, requests,
                 failed, processed, log, exc, budget>>

\* lines 333-334: an empty table is only warned about
WarnEmpty ==
  /\ pc = "emit"
  /\ Len(report) = 0
  /\ log' = log \cup {"warning: Empty dataset"}
  /\ pc' = "returned"
  /\ UNCHANGED <<env, X0, Z0, item_list, i, all_buys, all_sells, columns,
                 full_df, claim_list, dist_dict, report, kept, requests,
                 failed, processed, uploaded, exc, budget>>

Next ==
  \/ LoadConfig
  \/ FetchHome
  \/ FetchHomeRaises
  \/ FetchMarket
  \/ FetchMarketRaises
  \/ SkipItem
  \/ ItemFetchFailed
  \/ ItemNoOrders
  \/ ItemMatched
  \/ BeginDistances
  \/ ClaimFetched
  \/ ClaimFetchFailed
  \/ ApplyDistances
  \/ ApplyCapacity
  \/ AssembleReport
  \/ Upload
  \/ WarnEmpty

Spec == Init /\ [][Next]_vars

\* ------------------------------------------------------------------ claims
Rows == 1..Len(full_df)

IsItemQuery(e)  == e.path \in {"market/item", "market/cargo"}
IsClaimQuery(e) == e.path = "claims"

\* the claim queries of the distance loop that raised
FailedClaims ==
  {requests[k].id : k \in {j \in failed : IsClaimQuery(requests[j])}}

\* C1: a TradeMatch whose counterparty's claim query failed in the distance
\* loop has no entry in the distance mapping, gets the unknown-distance
\* sentinel, and is not among the rows of the final report.
C1_FailedPartnerDropped ==
  \A k \in Rows :
    TargetClaim(full_df[k], claim_id) \in FailedClaims =>
      /\ TargetClaim(full_df[k], claim_id) \notin DOMAIN dist_dict
      /\ "Distance" \in columns => full_df[k].Distance = Inf
      /\ full_df[k].index \notin kept

\* a report was uploaded although a profitable trade's partner could not be
\* located: that trade's row is the one missing
C1_Witness ==
  /\ uploaded
  /\ \E k \in Rows :
       /\ TargetClaim(full_df[k], claim_id) \in FailedClaims
       /\ full_df[k].Profit["Cargo Ship"] > 0

\* C2: when the item loop leaves no TradeMatch (the market summary lists no
\* item, or every item is skipped), the run still returns normally, with an
\* empty report, the empty-dataset warning logged and nothing uploaded.
C2_EmptyMarketRunsToEnd ==
  (/\ pc \in {"raised", "returned"}
   /\ exc # "RequestError"
   /\ Len(requests) >= 2
   /\ Len(full_df) = 0)
  => /\ pc = "returned"
     /\ report = <<>>
     /\ ~uploaded
     /\ "warning: Empty dataset" \in log

\* C3: over a run, no claim id is queried twice through the claim-by-id
\* query.
C3_OneFetchPerClaim ==
  \A a, b \in 1..Len(requests) :
    (a < b /\ IsClaimQuery(requests[a]) /\ IsClaimQuery(requests[b]))
      => requests[a].id # requests[b].id

\* C4: in a normalized pool no two records share (item id, location id,
\* price).
PoolKey(r) == <<r.itemId, r.claimEntityId, ParseInt(r.priceThreshold)>>

C4_PoolKeysUnique ==
  /\ \A a, b \in 1..Len(all_buys) :
       a # b => PoolKey(all_buys[a]) # PoolKey(all_buys[b])
  /\ \A a, b \in 1..Len(all_sells) :
       a # b => PoolKey(all_sells[a]) # PoolKey(all_sells[b])

\* the volume the item listing supplied for a row's item, in half units
ListedVolume(r) ==
  (CHOOSE it \in {item_list[k] : k \in 1..Len(item_list)} : it.id = r.itemId).volume

\* C5: for every vehicle and every ranked trade, the capped quantity is at
\* most the trade quantity and at most floor(effective capacity / volume),
\* the volume being the one the item listing supplied.
C5_CappedWithinCapacity ==
  (VehicleColumns \subseteq columns) =>
    \A k \in Rows : \A v \in VehicleSet :
      /\ full_df[k].Quantity[v] <= full_df[k].TradeQuantity
      /\ full_df[k].Quantity[v]
           <= (2 * EffectiveCapacity(v, full_df[k].itemTypeStr))
                \div ListedVolume(full_df[k])

\* C6: every row of the accumulated table has the home claim as its selling
\* or as its buying location.
C6_HomeParticipates ==
  \A k \in Rows :
    \/ full_df[k].sellClaimEntityId = claim_id
    \/ full_df[k].buyClaimEntityId = claim_id

\* two items have contributed rows: one sold at the home claim and bought
\* elsewhere, the other sold elsewhere and bought at the home claim
C6_Witness ==
  \E a, b \in Rows :
    /\ full_df[a].itemId # full_df[b].itemId
    /\ full_df[a].sellClaimEntityId = claim_id
    /\ full_df[a].buyClaimEntityId # claim_id
    /\ full_df[b].buyClaimEntityId = claim_id
    /\ full_df[b].sellClaimEntityId # claim_id

\* C7: every row of the accumulated table has a buying price strictly above
\* its selling price, and its unit profit is their positive difference.
C7_StrictProfit ==
  \A k \in Rows :
    /\ full_df[k].BuyingPrice > full_df[k].SellingPrice
    /\ full_df[k].UnitProfit = full_df[k].BuyingPrice - full_df[k].SellingPrice
    /\ full_df[k].UnitProfit > 0

\* the item last matched produced a row, and its pools also held a pair
\* touching the home claim whose buying price is not above the selling price
C7_Witness ==
  /\ \E k \in Rows : \E s \in 1..Len(all_sells) :
       full_df[k].itemId = all_sells[s].itemId
  /\ \E s \in 1..Len(all_sells) : \E b \in 1..Len(all_buys) :
       /\ all_sells[s].claimEntityId = claim_id
       /\ ParseInt(all_buys[b].priceThreshold) <= ParseInt(all_sells[s].priceThreshold)

\* the item loop has ended (line 191 is reached), however the run went on
AfterItemLoop ==
  \/ pc \in {"claims", "capacity", "assemble", "emit"}
  \/ pc = "raised" /\ exc # "RequestError"
  \/ pc = "returned" /\ Len(requests) >= 2

\* the distance loop has ended (line 224 is reached)
AfterClaimLoop ==
  \/ pc \in {"capacity", "assemble", "emit"}
  \/ pc = "raised" /\ exc # "RequestError" /\ "Distance" \in columns
  \/ pc = "returned" /\ Len(requests) >= 2

ClaimQueries == SelectSeq(requests, IsClaimQuery)

\* C8: an item whose order book query failed contributes no row and is not
\* queried again; the loop bodies run for the items in list order and, once
\* the loop is over, have run for every item.  Likewise a claim whose query
\* failed is not queried again, and the distance loop queries every claim of
\* its list, in order.
C8_SkipAndContinue ==
  /\ \A k \in failed :
       /\ \A j \in 1..Len(requests) : j > k => requests[j] # requests[k]
       /\ IsItemQuery(requests[k]) =>
            \A r \in Rows : full_df[r].itemId # requests[k].id
  /\ processed = [k \in 1..Len(processed) |-> k - 1]
  /\ AfterItemLoop => Len(processed) = total_N
  /\ AfterClaimLoop =>
       Tail(ClaimQueries) = [k \in 1..claim_N |-> Endpoint("claims", claim_list[k])]

\* an order book query failed and a later item was still queried; a claim
\* query failed and a later claim was still queried; the run has returned
C8_Witness ==
  /\ pc = "returned"
  /\ \E k \in failed : \E j \in 1..Len(requests) :
       j > k /\ IsItemQuery(requests[k]) /\ IsItemQuery(requests[j])
  /\ \E k \in failed : \E j \in 1..Len(requests) :
       j > k /\ IsClaimQuery(requests[k]) /\ IsClaimQuery(requests[j])

\* C9: no RequestError leaves main().
C9_RequestErrorsAbsorbed == exc # "RequestError"

\* C10: a row whose distance is zero is not among the rows of the final
\* report; neither is a row whose two sides are both the home claim.
C10_ZeroDistanceDropped ==
  \A k \in Rows :
    /\ ("Distance" \in columns /\ full_df[k].Distance = Fin(0))
         => full_df[k].index \notin kept
    /\ (full_df[k].sellClaimEntityId = claim_id /\ full_df[k].buyClaimEntityId = claim_id)
         => full_df[k].index \notin kept

\* a report was uploaded while a profitable home-to-home trade at distance
\* zero was in the table
C10_Witness ==
  /\ uploaded
  /\ \E k \in Rows :
       /\ full_df[k].sellClaimEntityId = claim_id
       /\ full_df[k].buyClaimEntityId = claim_id
       /\ full_df[k].Distance = Fin(0)
       /\ full_df[k].Profit["Cargo Ship"] > 0

====
